---- MODULE Spec2Model ----
(***************************************************************************)
(* A model of the turbo-static call resolver (call_resolver.rs) and of the *)
(* calling-style classifier (visitor.rs).                                  *)
(*                                                                         *)
(* Three specifications share the variables of the module:                 *)
(*   Spec         the CallResolver: cache check, prepare retry loop,       *)
(*                incoming-calls request, persist, cleared;                *)
(*   SpecJoin     the CallingStyle join (impl Add) and result()'s fold;    *)
(*   SpecVisitor  a traversal of a syntax tree by CallingStyleVisitor.     *)
(***************************************************************************)
EXTENDS Integers, Sequences, FiniteSets, TLC

(* ---------------------------------------------------------------- bounds *)

\* longest list of incoming calls the server answers with
MaxLinks == 2

\* prepare responses of one resolve that are no array (null, error): the
\* loop does not count them, so the model has to
MaxStalls == 2

(* ------------------------------------------------------------- resolver *)

VARIABLES
    keyspace,   \* fjall::Keyspace: partition name -> (key -> bytes)
    pc,         \* where the resolver is: idle, prepare, sleep, incoming, panicked
    ident,      \* the identifier of the resolve in progress (or of the last one)
    count,      \* resolve's local `count`
    prepared,   \* resolve's local `_response`, the value the loop broke with
    ret,        \* what the last resolve returned (an option)
    op,         \* the last operation that completed: new, hit, miss, cleared, panic
    nPrepare,   \* prepareCallHierarchy requests issued by the current resolve
    nSleep,     \* sleeps of the current resolve
    nIncoming,  \* incomingCalls requests issued by the current resolve
    nStall,     \* prepare responses of the current resolve that were no array
    allEmpty,   \* every prepare response of the current resolve was an empty array
    nonEmptyAt, \* the attempt that answered a non-empty array (0: none yet)
    exceeded,   \* the current resolve left the loop at `count > 5`
    answer,     \* the response to the current resolve's incomingCalls request
    first,      \* key -> the list the first completed resolve since new/cleared returned
    stale,      \* keys cached when cleared() ran and not resolved since
    wasStale,   \* the identifier of the current resolve was in `stale` when it began
    before      \* the partition as the current resolve found it

rvars == <<keyspace, pc, ident, count, prepared, ret, op, nPrepare, nSleep,
           nIncoming, nStall, allEmpty, nonEmptyAt, exceeded, answer, first, stale,
           wasStale, before>>

(* ----------------------------------------------------------- classifier *)

VARIABLES
    jx, jy, jz, \* three CallingStyle operands
    jstack,     \* a marker stack handed to result()
    jpc,        \* start, pair, triple, done
    jxy, jyx,   \* jx + jy and jy + jx
    jl, jr,     \* (jx + jy) + jz and jx + (jy + jz)
    jfold       \* result() of jstack

jvars == <<jx, jy, jz, jstack, jpc, jxy, jyx, jl, jr, jfold>>

VARIABLES
    state,      \* CallingStyleVisitor::state, the marker deque
    vpath,      \* the constructs the traversal is inside of, outermost first
    vpc,        \* walking, done (the traversal returned), result (result() taken)
    vresult,    \* what result() returned
    callShape,  \* where the calls of the target seen so far stand
    vdecl,      \* the declaration the last declaration handler was called with
    matched,    \* a declaration with the caller's name was handled
    vcall       \* what the arguments of the last call expression visited hold

vvars == <<state, vpath, vpc, vresult, callShape, vdecl, matched, vcall>>

(* ------------------------------------------------------- the store, tags *)

VARIABLES
    cpc,        \* cleared(): idle, deleted (between its two calls), done
    seen        \* what a reader of the keyspace found under "links" last

cvars == <<cpc, seen>>

VARIABLES
    attrs,      \* the attributes of a declaration, in source order
    tags,       \* what extract_tags returned
    tpc         \* start, done

tvars == <<attrs, tags, tpc>>

VARIABLES
    pjson,      \* the JSON object handed to PackageJson::from_value
    ploaded,    \* from_value's Result<PackageJson, Error>
    pout,       \* serde_json::to_value of the loaded PackageJson
    ppc         \* start, loaded, written, failed

pvars == <<pjson, ploaded, pout, ppc>>

\* the variables of the specifications of the store, the tags and package.json
xvars == <<cvars, tvars, pvars>>

vars == <<rvars, jvars, vvars, xvars>>

None == [some |-> FALSE, val |-> <<>>]
Some(v) == [some |-> TRUE, val |-> v]

SeqsUpTo(S, n) == UNION {[1..k -> S] : k \in 0..n}

\* the tagged identifiers handed to resolve
Identifiers ==
    { [path |-> "/a.rs", name |-> "f", line |-> 1, col |-> 0],
      [path |-> "/a.rs", name |-> "g", line |-> 7, col |-> 4] }

\* Display for Identifier: the canonical key
to_string(i) ==
    i.path \o "#" \o i.name \o "@" \o ToString(i.line) \o ":" \o ToString(i.col)

\* the records of an incomingCalls result
IncomingCalls ==
    { [from |-> "f", from_ranges |-> <<1>>],
      [from |-> "g", from_ranges |-> <<1, 2>>] }

\* From<CallHierarchyIncomingCall> for IdentifierReference
into(call) == [identifier |-> call.from, references |-> call.from_ranges]

IdentifierReferences == {into(c) : c \in IncomingCalls}


(* bincode: a Vec is its length, then its elements; a String is its length,
   then its bytes (the names here are one byte long) *)
NameByte(n) == IF n = "f" THEN 102 ELSE 103
ByteName(b) == IF b = 102 THEN "f" ELSE "g"

EncodeRef(r) ==
    <<1, NameByte(r.identifier), Len(r.references)>> \o r.references

RECURSIVE EncodeRefs(_)
EncodeRefs(links) ==
    IF links = <<>> THEN <<>>
    ELSE EncodeRef(Head(links)) \o EncodeRefs(Tail(links))

\* bincode::serialize(&links)
Serialize(links) == <<Len(links)>> \o EncodeRefs(links)

RECURSIVE DecodeRefs(_, _)
DecodeRefs(data, n) ==
    IF n = 0 THEN <<>>
    ELSE LET k == data[3]
         IN  <<[identifier |-> ByteName(data[2]),
                references |-> SubSeq(data, 4, 3 + k)]>>
             \o DecodeRefs(SubSeq(data, 4 + k, Len(data)), n - 1)

\* bincode::deserialize(&data)
Deserialize(data) == DecodeRefs(Tail(data), Head(data))

(* lsp_server::Response: `result` is absent ("none"), a value that is no
   array of the expected records ("other") or an array; `error` is set or not *)
Response(kind, items, error) == [kind |-> kind, items |-> items, error |-> error]

NoResponse == Response("none", <<>>, FALSE)

PrepareResponses ==
    {Response(k, <<>>, e) : k \in {"none", "other", "array"}, e \in BOOLEAN}
    \cup {Response("array", <<"item">>, e) : e \in BOOLEAN}

IncomingResponses ==
    {Response(k, <<>>, e) : k \in {"none", "other"}, e \in BOOLEAN}
    \cup {Response("array", l, e) : l \in SeqsUpTo(IncomingCalls, MaxLinks), e \in BOOLEAN}

\* response.result.as_ref().map(|r| r.as_array()) matched against Some(Some(value))
as_array(resp) == IF resp.kind = "array" THEN Some(resp.items) ELSE None

\* the bound of the retry loop
MaxRetries == 5

\* the bound reached one attempt early
BoundExceededEarly(c) == c >= MaxRetries

\* `count > 5`
BoundExceeded(c) == c > MaxRetries

RECURSIVE MapInto(_)
MapInto(calls) ==
    IF calls = <<>> THEN <<>>
    ELSE <<into(Head(calls))>> \o MapInto(Tail(calls))

\* the result looked at before the error
LinksOfResultFirst(resp) ==
    IF resp.kind = "array" THEN Some(MapInto(resp.items))
    ELSE IF resp.error THEN Some(<<>>)
    ELSE None

\* a missing or malformed result taken as the empty list
LinksOfDefault(resp) ==
    IF resp.error THEN Some(<<>>)
    ELSE IF resp.kind = "array" THEN Some(MapInto(resp.items))
    ELSE Some(<<>>)

\* `let links = if let Some(e) = response.error {..} else {..}`: None when an
\* unwrap panics
LinksOf(resp) ==
    IF resp.error THEN Some(<<>>)
    ELSE IF resp.kind = "array" THEN Some(MapInto(resp.items))
    ELSE None

(* the store *)
Links == "links"

EmptyPartition == [k \in {} |-> <<>>]

\* Keyspace::open_partition: opens the partition, creating it if absent
open_partition(ks, name) ==
    IF name \in DOMAIN ks THEN ks
    ELSE [n \in DOMAIN ks \cup {name} |-> IF n = name THEN EmptyPartition ELSE ks[n]]

\* a delete that leaves the partition in place
delete_partition_kept(ks, name) == ks

\* Keyspace::delete_partition
delete_partition(ks, name) == [n \in DOMAIN ks \ {name} |-> ks[n]]

\* a lookup that never finds the key
get_absent(part, key) == None

\* a lookup that takes a stored empty list for a missing entry
get_nonempty(part, key) ==
    IF key \in DOMAIN part /\ part[key] # <<0>> THEN Some(part[key]) ELSE None

\* PartitionHandle::get
get(part, key) == IF key \in DOMAIN part THEN Some(part[key]) ELSE None

\* an insert that skips the serialized empty list
insert_nonempty(part, key, data) ==
    IF data = <<0>> THEN part
    ELSE [k \in DOMAIN part \cup {key} |-> IF k = key THEN data ELSE part[k]]

\* an insert that leaves the new entry alone in the partition
insert_alone(part, key, data) == [k \in {key} |-> data]

\* PartitionHandle::insert
insert(part, key, data) ==
    [k \in DOMAIN part \cup {key} |-> IF k = key THEN data ELSE part[k]]

\* PartitionHandle::len
len(part) == Cardinality(DOMAIN part)

\* the partition behind self.handle
handle == keyspace[Links]

\* CallResolver::cached
cached == len(handle)

Keys == {to_string(i) : i \in Identifiers}

\* what earlier runs of resolve can have left in the store
PersistedPartitions ==
    UNION {[K -> {Serialize(l) : l \in SeqsUpTo(IdentifierReferences, MaxLinks)}] :
           K \in SUBSET Keys}

\* the list a key's first completed resolve returned
Remember(f, key, list) ==
    IF key \in DOMAIN f THEN f
    ELSE [k \in DOMAIN f \cup {key} |-> IF k = key THEN list ELSE f[k]]

\* the resolver at rest, in the specifications that are not about it
ResolverIdle ==
    /\ keyspace = [n \in {Links} |-> EmptyPartition]
    /\ pc = "idle"
    /\ ident = CHOOSE i \in Identifiers : TRUE
    /\ count = 0
    /\ prepared = <<>>
    /\ ret = None
    /\ op = "new"
    /\ nPrepare = 0
    /\ nSleep = 0
    /\ nIncoming = 0
    /\ nStall = 0
    /\ allEmpty = TRUE
    /\ nonEmptyAt = 0
    /\ exceeded = FALSE
    /\ answer = NoResponse
    /\ first = EmptyPartition
    /\ stale = {}
    /\ wasStale = FALSE
    /\ before = EmptyPartition

\* CallResolver::new over a keyspace that may hold an earlier run's partition
InitResolver ==
    /\ \E part \in PersistedPartitions :
         keyspace = open_partition([n \in {Links} |-> part], Links)
    /\ pc = "idle"
    /\ ident \in Identifiers
    /\ count = 0
    /\ prepared = <<>>
    /\ ret = None
    /\ op = "new"
    /\ nPrepare = 0
    /\ nSleep = 0
    /\ nIncoming = 0
    /\ nStall = 0
    /\ allEmpty = TRUE
    /\ nonEmptyAt = 0
    /\ exceeded = FALSE
    /\ answer = NoResponse
    /\ first = EmptyPartition
    /\ stale = {}
    /\ wasStale = FALSE
    /\ before = handle

\* resolve, lines 36-44: the cache check; on a miss the loop is entered
Resolve(i) ==
    /\ pc = "idle"
    /\ ident' = i
    /\ count' = 0
    /\ prepared' = <<>>
    /\ nPrepare' = 0
    /\ nSleep' = 0
    /\ nIncoming' = 0
    /\ nStall' = 0
    /\ allEmpty' = TRUE
    /\ nonEmptyAt' = 0
    /\ exceeded' = FALSE
    /\ answer' = NoResponse
    /\ LET data == get(handle, to_string(i))
       IN  IF data.some
           THEN /\ ret' = Some(Deserialize(data.val))
                /\ op' = "hit"
                /\ pc' = "idle"
                /\ first' = Remember(first, to_string(i), Deserialize(data.val))
           ELSE /\ ret' = None
                /\ op' = "checking"
                /\ pc' = "prepare"
                /\ first' = first
    /\ wasStale' = (to_string(i) \in stale)
    /\ stale' = stale \ {to_string(i)}
    /\ before' = handle
    /\ UNCHANGED <<keyspace, jvars, vvars, xvars>>

\* resolve, lines 45-76: one prepareCallHierarchy request and what the loop
\* does with the response
Prepare(resp) ==
    /\ pc = "prepare"
    /\ as_array(resp).some \/ nStall < MaxStalls
    /\ nPrepare' = nPrepare + 1
    /\ nStall' = IF as_array(resp).some THEN nStall ELSE nStall + 1
    /\ allEmpty' = (allEmpty /\ as_array(resp) = Some(<<>>))
    /\ LET value == as_array(resp)
           broke == value.some /\ value.val # <<>>
           c     == IF value.some /\ ~broke THEN count + 1 ELSE count
       IN  /\ count' = c
           /\ nonEmptyAt' = IF broke THEN nPrepare + 1 ELSE nonEmptyAt
           /\ IF broke
              THEN /\ prepared' = value.val
                   /\ exceeded' = exceeded
                   /\ pc' = "incoming"
              ELSE IF BoundExceeded(c)
              THEN /\ prepared' = <<>>
                   /\ exceeded' = TRUE
                   /\ pc' = "incoming"
              ELSE /\ prepared' = prepared
                   /\ exceeded' = exceeded
                   /\ pc' = "sleep"
    /\ UNCHANGED <<keyspace, ident, ret, op, nSleep, nIncoming, answer, first, stale,
                   wasStale, before, jvars, vvars, xvars>>

\* resolve, line 78: std::thread::sleep, then the next turn of the loop
Sleep ==
    /\ pc = "sleep"
    /\ nSleep' = nSleep + 1
    /\ pc' = "prepare"
    /\ UNCHANGED <<keyspace, ident, count, prepared, ret, op, nPrepare, nIncoming,
                   nStall, allEmpty, nonEmptyAt, exceeded, answer, first, stale,
                   wasStale, before, jvars, vvars, xvars>>

\* resolve, lines 81-124: the incomingCalls request, the links, the persist,
\* the return; an unwrap that panics ends the resolver
Incoming(resp) ==
    /\ pc = "incoming"
    /\ nIncoming' = nIncoming + 1
    /\ answer' = resp
    /\ LET links == LinksOf(resp)
           key   == to_string(ident)
       IN  IF links.some
           THEN /\ keyspace' = [keyspace EXCEPT
                                  ![Links] = insert(@, key, Serialize(links.val))]
                /\ ret' = Some(links.val)
                /\ op' = "miss"
                /\ pc' = "idle"
                /\ first' = Remember(first, key, links.val)
           ELSE /\ op' = "panic"
                /\ pc' = "panicked"
                /\ UNCHANGED <<keyspace, ret, first>>
    /\ UNCHANGED <<ident, count, prepared, nPrepare, nSleep, nStall, allEmpty,
                   nonEmptyAt, exceeded, stale, wasStale, before, jvars, vvars, xvars>>

\* CallResolver::cleared
Cleared ==
    /\ pc = "idle"
    /\ keyspace' = open_partition(delete_partition(keyspace, Links), Links)
    /\ op' = "cleared"
    /\ stale' = stale \cup DOMAIN handle
    /\ first' = EmptyPartition
    /\ UNCHANGED <<pc, ident, count, prepared, ret, nPrepare, nSleep, nIncoming,
                   nStall, allEmpty, nonEmptyAt, exceeded, answer, wasStale,
                   before, jvars, vvars, xvars>>

(* --------------------------------------------------- CallingStyle, join *)

\* longest marker stack handed to result()
MaxStack == 3

\* deepest nesting of constructs in the traversed source
MaxDepth == 3

CallingStyle == {"Once", "ZeroOrOnce", "ZeroOrMore", "OneOrMore"}

CallingStyleVisitorState == {"Block", "Loop", "If", "Closure"}

\* `|` on u8
RECURSIVE BitOr(_, _)
BitOr(a, b) ==
    IF a = 0 THEN b
    ELSE IF b = 0 THEN a
    ELSE (IF a % 2 = 1 \/ b % 2 = 1 THEN 1 ELSE 0) + 2 * BitOr(a \div 2, b \div 2)

\* ZeroOrMore without its exactly-once bit
bitset_no_once(self) ==
    CASE self = "Once"       -> 2
      [] self = "ZeroOrOnce" -> 3
      [] self = "ZeroOrMore" -> 5
      [] self = "OneOrMore"  -> 6

\* CallingStyle::bitset
bitset(self) ==
    CASE self = "Once"       -> 2
      [] self = "ZeroOrOnce" -> 3
      [] self = "ZeroOrMore" -> 7
      [] self = "OneOrMore"  -> 6

\* a match without the arm of 0b0110
StyleOf_short(bits) ==
    CASE bits = 2 -> "Once"
      [] bits = 3 -> "ZeroOrOnce"
      [] bits = 7 -> "ZeroOrMore"
      [] OTHER    -> "unreachable"

\* the arms of add's match; "unreachable" is the panic of unreachable!()
StyleOf(bits) ==
    CASE bits = 2 -> "Once"
      [] bits = 3 -> "ZeroOrOnce"
      [] bits = 7 -> "ZeroOrMore"
      [] bits = 6 -> "OneOrMore"
      [] OTHER    -> "unreachable"

\* a join that keeps the left operand's bits only
add_left(self, rhs) ==
    IF self = "unreachable" \/ rhs = "unreachable" THEN "unreachable"
    ELSE StyleOf(bitset(self))

\* impl Add for CallingStyle (a panic in an operand is a panic of the sum)
add(self, rhs) ==
    IF self = "unreachable" \/ rhs = "unreachable" THEN "unreachable"
    ELSE StyleOf(BitOr(bitset(self), bitset(rhs)))

\* a map that takes a closure for a block
BaseStyle_closure_once(b) ==
    CASE b = "Block"   -> "Once"
      [] b = "Loop"    -> "ZeroOrMore"
      [] b = "If"      -> "ZeroOrOnce"
      [] b = "Closure" -> "Once"

\* result()'s map from a marker to its base multiplicity
BaseStyle(b) ==
    CASE b = "Block"   -> "Once"
      [] b = "Loop"    -> "ZeroOrMore"
      [] b = "If"      -> "ZeroOrOnce"
      [] b = "Closure" -> "ZeroOrMore"

\* Iterator::reduce(|a, b| a + b) from the accumulator `acc` on
RECURSIVE Reduce(_, _)
Reduce(acc, rest) ==
    IF rest = <<>> THEN acc
    ELSE Reduce(add(acc, BaseStyle(Head(rest))), Tail(rest))

NoStyle == [some |-> FALSE, val |-> "none"]

\* CallingStyleVisitor::result over the deque `st`
result(st) ==
    IF st = <<>> THEN NoStyle
    ELSE Some(Reduce(BaseStyle(Head(st)), Tail(st)))

JoinIdle ==
    /\ jx = "Once" /\ jy = "Once" /\ jz = "Once"
    /\ jstack = <<>>
    /\ jpc = "start"
    /\ jxy = "none" /\ jyx = "none" /\ jl = "none" /\ jr = "none"
    /\ jfold = NoStyle

InitJoin ==
    /\ jx \in CallingStyle /\ jy \in CallingStyle /\ jz \in CallingStyle
    /\ jstack \in SeqsUpTo(CallingStyleVisitorState, MaxStack)
    /\ jpc = "start"
    /\ jxy = "none" /\ jyx = "none" /\ jl = "none" /\ jr = "none"
    /\ jfold = NoStyle

\* jx + jy and jy + jx
AddPair ==
    /\ jpc = "start"
    /\ jxy' = add(jx, jy)
    /\ jyx' = add(jy, jx)
    /\ jpc' = "pair"
    /\ UNCHANGED <<jx, jy, jz, jstack, jl, jr, jfold, rvars, vvars, xvars>>

\* (jx + jy) + jz and jx + (jy + jz)
AddTriple ==
    /\ jpc = "pair"
    /\ jl' = add(jxy, jz)
    /\ jr' = add(jx, add(jy, jz))
    /\ jpc' = "triple"
    /\ UNCHANGED <<jx, jy, jz, jstack, jxy, jyx, jfold, rvars, vvars, xvars>>

\* result() of a visitor whose deque is jstack
FoldStack ==
    /\ jpc = "triple"
    /\ jfold' = result(jstack)
    /\ jpc' = "done"
    /\ UNCHANGED <<jx, jy, jz, jstack, jxy, jyx, jl, jr, rvars, vvars, xvars>>

(* ------------------------------------------------- CallingStyleVisitor *)

\* the names of the functions and methods declared in the traversed source
FnNames == {"caller", "helper"}

\* reference.identifier of the visitor: the caller of the edge
ReferenceName == "caller"

\* where a declaration's name stands: at the place the reference's identifier
\* records, or somewhere else
Ranges == {"at", "off"}

\* reference.identifier.range
ReferenceRange == "at"

\* the declarations (sig.ident: a name and its span) of the traversed source
Declarations == [name : FnNames, range : Ranges]

\* no declaration handled yet
NoDecl == [name |-> "none", range |-> "none", tick |-> FALSE]

\* Identifier::equals_ident(&ident, ignore_range): the names are equal and,
\* unless the range is ignored, so are the places
equals_ident(decl, ignore_range) ==
    /\ decl.name = ReferenceName
    /\ ignore_range \/ decl.range = ReferenceRange

\* the functions a call expression names
Callees == {"target", "other"}

\* what the arguments of a call expression hold: nothing that pushes a
\* marker, or a loop, an `if` or a closure
Arguments == {"plain", "ExprLoop", "ExprIf", "ExprClosure"}

\* no call expression visited yet
NoCall == [args |-> "none", tick |-> FALSE]

\* the marker a construct pushes when it is entered ("none": no marker)
MarkerOf(kind) ==
    CASE kind = "ItemFn"      -> "Block"
      [] kind = "ImplItemFn"  -> "Block"
      [] kind = "ExprLoop"    -> "Loop"
      [] kind = "ExprForLoop" -> "Loop"
      [] kind = "ExprIf"      -> "If"
      [] kind = "ExprClosure" -> "Closure"
      [] OTHER                -> "none"

\* VecDeque::push_back
push_back(st, b) == Append(st, b)

\* a pop that leaves the deque as it is
pop_back_kept(st) == st

\* VecDeque::pop_back
pop_back(st) == IF st = <<>> THEN st ELSE SubSeq(st, 1, Len(st) - 1)

\* the construct the traversal is directly inside of ("File" at the top)
Inside == IF vpath = <<>> THEN "File" ELSE vpath[Len(vpath)]

\* where the source's grammar lets a construct stand: a file holds items, an
\* impl block holds methods and other impl items, expressions stand in bodies
MayHold(kind) ==
    CASE Inside = "File"     -> kind \in {"ItemFn", "ItemImpl", "Other"}
      [] Inside = "ItemImpl" -> kind \in {"ImplItemFn", "Other"}
      [] OTHER               -> kind # "ImplItemFn"

\* where a call of the target stands: directly in the matched declaration,
\* inside one `if` of it, inside one `for` of it, or elsewhere
ShapeOf(path) ==
    IF Len(path) = 1 /\ path[1] \in {"ItemFn", "ImplItemFn"} THEN "direct"
    ELSE IF Len(path) = 2 /\ path[1] \in {"ItemFn", "ImplItemFn"} /\ path[2] = "ExprIf"
    THEN "if"
    ELSE IF Len(path) = 2 /\ path[1] \in {"ItemFn", "ImplItemFn"}
            /\ path[2] = "ExprForLoop"
    THEN "for"
    ELSE "other"

VisitorIdle ==
    /\ state = <<>>
    /\ vpath = <<>>
    /\ vpc = "walking"
    /\ vresult = NoStyle
    /\ callShape = "none"
    /\ vdecl = NoDecl
    /\ matched = FALSE
    /\ vcall = NoCall

\* CallingStyleVisitor::new, before visit_file
InitVisitor == VisitorIdle

\* a handler up to its call of syn's default visit: the marker is pushed and
\* the traversal is inside the construct
Enter(kind) ==
    /\ vpc = "walking"
    /\ Len(vpath) < MaxDepth
    /\ MayHold(kind)
    /\ state' = IF MarkerOf(kind) = "none" THEN state
                ELSE push_back(state, MarkerOf(kind))
    /\ vpath' = Append(vpath, kind)
    /\ UNCHANGED <<vpc, vresult, callShape, rvars, jvars, xvars>>

\* a handler after syn's default visit returned: the marker is popped
Leave(kind) ==
    /\ vpc = "walking"
    /\ vpath # <<>>
    /\ Inside = kind
    /\ state' = IF MarkerOf(kind) = "none" THEN state ELSE pop_back(state)
    /\ vpath' = SubSeq(vpath, 1, Len(vpath) - 1)
    /\ UNCHANGED <<vpc, vresult, callShape, vdecl, matched, vcall, rvars, jvars, xvars>>

\* a declaration that is not the caller's: the handler returns at once
Skip(kind) ==
    /\ vpc = "walking"
    /\ MayHold(kind)
    /\ UNCHANGED <<state, vpath, vpc, vresult, callShape, rvars, jvars, xvars>>

\* the declaration a handler was called with
Handled(decl) ==
    /\ vdecl' = [name |-> decl.name, range |-> decl.range, tick |-> ~vdecl.tick]
    /\ matched' = (matched \/ decl.name = ReferenceName)
    /\ vcall' = vcall

\* a visit_item_fn that compares the place of the name as well
VisitItemFn_ranged(decl) ==
    /\ Handled(decl)
    /\ IF equals_ident(decl, FALSE) THEN Enter("ItemFn") ELSE Skip("ItemFn")

\* visit_item_fn
VisitItemFn(decl) ==
    /\ Handled(decl)
    /\ IF equals_ident(decl, TRUE) THEN Enter("ItemFn") ELSE Skip("ItemFn")

\* visit_impl_item_fn
VisitImplItemFn(decl) ==
    /\ Handled(decl)
    /\ IF equals_ident(decl, TRUE) THEN Enter("ImplItemFn") ELSE Skip("ImplItemFn")

\* visit_expr_loop
VisitExprLoop ==
    /\ MayHold("ExprLoop")
    /\ Enter("ExprLoop")
    /\ UNCHANGED <<vdecl, matched, vcall>>

\* visit_expr_for_loop
VisitExprForLoop ==
    /\ MayHold("ExprForLoop")
    /\ Enter("ExprForLoop")
    /\ UNCHANGED <<vdecl, matched, vcall>>

\* visit_expr_if
VisitExprIf ==
    /\ MayHold("ExprIf")
    /\ Enter("ExprIf")
    /\ UNCHANGED <<vdecl, matched, vcall>>

\* visit_expr_closure
VisitExprClosure ==
    /\ MayHold("ExprClosure")
    /\ Enter("ExprClosure")
    /\ UNCHANGED <<vdecl, matched, vcall>>

\* syn's default visit of an impl block
VisitItemImpl ==
    /\ MayHold("ItemImpl")
    /\ Enter("ItemImpl")
    /\ UNCHANGED <<vdecl, matched, vcall>>

\* syn's default visit of any other construct that holds expressions or
\* items (a block, a while, a match, a method call, a const item, a module)
VisitOther ==
    /\ MayHold("Other")
    /\ Enter("Other")
    /\ UNCHANGED <<vdecl, matched, vcall>>

\* a visit_expr_call that goes on into the callee and the arguments
VisitExprCall_descending(callee, args) ==
    /\ vpc = "walking"
    /\ MayHold("ExprCall")
    /\ vpath # <<>>
    /\ vcall' = [args |-> args, tick |-> ~vcall.tick]
    /\ callShape' = IF callee # "target" THEN callShape
                    ELSE IF callShape \in {"none", ShapeOf(vpath)} THEN ShapeOf(vpath)
                    ELSE "other"
    /\ state' = IF args = "plain" THEN state ELSE push_back(state, MarkerOf(args))
    /\ vpath' = Append(Append(vpath, "ExprCall"), args)
    /\ UNCHANGED <<vpc, vresult, vdecl, matched, rvars, jvars, xvars>>

\* visit_expr_call: prints or logs; the callee and the arguments are not visited
VisitExprCall(callee, args) ==
    /\ vpc = "walking"
    /\ MayHold("ExprCall")
    /\ vpath # <<>>
    /\ vcall' = [args |-> args, tick |-> ~vcall.tick]
    /\ callShape' = IF callee # "target" THEN callShape
                    ELSE IF callShape \in {"none", ShapeOf(vpath)} THEN ShapeOf(vpath)
                    ELSE "other"
    /\ UNCHANGED <<state, vpath, vpc, vresult, vdecl, matched, rvars, jvars, xvars>>

\* visit_file returned
VisitDone ==
    /\ vpc = "walking"
    /\ vpath = <<>>
    /\ vpc' = "done"
    /\ UNCHANGED <<state, vpath, vresult, callShape, vdecl, matched, vcall, rvars, jvars, xvars>>

\* CallingStyleVisitor::result
Result ==
    /\ vpc = "done"
    /\ vresult' = result(state)
    /\ vpc' = "result"
    /\ UNCHANGED <<state, vpath, callShape, vdecl, matched, vcall, rvars, jvars, xvars>>

(* --------------------------------------------------------- extract_tags *)

\* most annotations on a declaration, most tokens in an argument list
MaxAttrs == 2
MaxTokens == 2

NoTags == [some |-> FALSE, val |-> <<>>]

\* the path of the marker: turbo_tasks::function
TaskPath == <<"turbo_tasks", "function">>

\* the paths of the annotations: the marker, two that share one segment with
\* it, a path of one segment and one of three
AttrPaths == {TaskPath, <<"turbo_tasks", "value">>, <<"other", "function">>,
              <<"inline">>, <<"crate", "turbo_tasks", "function">>}

\* proc_macro2::TokenTree: identifiers and a punctuation
Tokens ==
    {[kind |-> "Ident", text |-> "a"], [kind |-> "Ident", text |-> "b"],
     [kind |-> "Punct", text |-> ","]}

Attr(meta, path, tokens) == [meta |-> meta, path |-> path, tokens |-> tokens]

\* syn::Attribute by its meta: #[path], #[path(tokens)], #[path = value];
\* the argument lists vary on the marker's path only
Attributes ==
    {Attr("Path", p, <<>>) : p \in AttrPaths}
    \cup {Attr("List", TaskPath, t) : t \in SeqsUpTo(Tokens, MaxTokens)}
    \cup {Attr("List", p, <<[kind |-> "Ident", text |-> "a"]>>) :
            p \in AttrPaths \ {TaskPath}}
    \cup {Attr("NameValue", TaskPath, <<>>)}

\* a collect that keeps every token
RECURSIVE AllTokens(_)
AllTokens(tokens) ==
    IF tokens = <<>> THEN <<>>
    ELSE <<Head(tokens).text>> \o AllTokens(Tail(tokens))

\* tokens.into_iter().filter_map(|t| if let Ident(ident) = t {..}).collect()
RECURSIVE IdentTokens(_)
IdentTokens(tokens) ==
    IF tokens = <<>> THEN <<>>
    ELSE IF Head(tokens).kind = "Ident"
    THEN <<Head(tokens).text>> \o IdentTokens(Tail(tokens))
    ELSE IdentTokens(Tail(tokens))

\* the closure of find_map: the arms of `match &a.meta`
TagsOf(a) ==
    CASE a.meta = "Path" /\ Len(a.path) = 2 ->
           IF a.path[1] = "turbo_tasks" /\ a.path[2] = "function"
           THEN Some(<<>>) ELSE NoTags
      [] a.meta = "List" /\ Len(a.path) = 2 ->
           IF a.path[1] # "turbo_tasks" \/ a.path[2] # "function"
           THEN NoTags ELSE Some(IdentTokens(a.tokens))
      [] OTHER -> NoTags

\* extract_tags: Iterator::find_map, the first Some of the closure
RECURSIVE extract_tags(_)
extract_tags(meta) ==
    IF meta = <<>> THEN NoTags
    ELSE IF TagsOf(Head(meta)).some THEN TagsOf(Head(meta))
    ELSE extract_tags(Tail(meta))

TagsIdle ==
    /\ attrs = <<>>
    /\ tags = NoTags
    /\ tpc = "start"

\* the annotations of a declaration, in source order
InitTags ==
    /\ attrs \in SeqsUpTo(Attributes, MaxAttrs)
    /\ tags = NoTags
    /\ tpc = "start"

\* extract_tags(attrs.iter())
ExtractTags ==
    /\ tpc = "start"
    /\ tags' = extract_tags(attrs)
    /\ tpc' = "done"
    /\ UNCHANGED <<attrs, rvars, jvars, vvars, cvars, pvars>>

(* ---------------------------------------------------------- PackageJson *)

(* serde_json::Value: a string, a boolean, a number or an object *)
NoFields == [k \in {} |-> ""]

String(text) == [kind |-> "string", text |-> text, fields |-> NoFields]
Bool(text) == [kind |-> "bool", text |-> text, fields |-> NoFields]
Number(text) == [kind |-> "number", text |-> text, fields |-> NoFields]
Object(fields) == [kind |-> "object", text |-> "", fields |-> fields]

\* the object with the members `members`, a set of <<key, value>>
ObjectOf(members) ==
    Object([k \in {m[1] : m \in members} |->
              (CHOOSE m \in members : m[1] = k)[2]])

\* a BTreeMap<String, String> as a JSON object
MapValue(map) == Object([k \in DOMAIN map |-> String(map[k])])

\* the values from_value is given: each member is there or not; scripts may
\* be empty; pnpm may hold patchedDependencies and a member PnpmConfig has
\* no field for; "random-field" is a member PackageJson has no field for
JsonInputs ==
    {ObjectOf(n \cup s \cup r \cup p \cup o) :
       n \in {{}, {<<"name", String("foo")>>}},
       s \in {{}, {<<"scripts", MapValue(NoFields)>>},
              {<<"scripts", MapValue([k \in {"build"} |-> "tsc"])>>}},
       r \in {{}, {<<"resolutions", MapValue([k \in {"foo"} |-> "1.0.0"])>>}},
       p \in {{}} \cup
             {{<<"pnpm", ObjectOf(d \cup a)>>} :
                d \in {{}, {<<"patchedDependencies",
                              MapValue([k \in {"some-pkg"} |-> "./patchfile"])>>}},
                a \in {{}, {<<"another-field", Number("1")>>}}},
       o \in {{}, {<<"random-field", Bool("true")>>}}}

\* the members PackageJson and PnpmConfig have a field for (camelCase,
\* legacy_turbo_config renamed)
PackageJsonKeys ==
    {"name", "version", "packageManager", "dependencies", "devDependencies",
     "optionalDependencies", "peerDependencies", "turbo", "scripts",
     "resolutions", "pnpm"}

PnpmConfigKeys == {"patchedDependencies"}

\* what the derived Deserializable does with a member the struct has no
\* field for: passes it over, or reports it and gives no value
UnknownKeyPolicies == {"ignore", "deny"}

HasUnknownKey(value) ==
    \/ ~(DOMAIN value.fields \subseteq PackageJsonKeys)
    \/ /\ "pnpm" \in DOMAIN value.fields
       /\ ~(DOMAIN value.fields["pnpm"].fields \subseteq PnpmConfigKeys)

NoString == [some |-> FALSE, val |-> ""]
NoMap == [some |-> FALSE, val |-> NoFields]
NoPnpm == [some |-> FALSE, val |-> [patched_dependencies |-> NoMap]]

\* Option<String> from the member `k`
StringField(fields, k) ==
    IF k \in DOMAIN fields THEN Some(fields[k].text) ELSE NoString

\* BTreeMap<String, String> from an object
MapOf(value) == [k \in DOMAIN value.fields |-> value.fields[k].text]

\* Option<BTreeMap<String, _>> from the member `k`
MapField(fields, k) ==
    IF k \in DOMAIN fields THEN Some(MapOf(fields[k])) ELSE NoMap

\* the PackageJson deserialized from an object (of the fields that are
\* Option<String> or Option<BTreeMap>, name and resolutions stand for all)
Deserialized(value) ==
    [name        |-> StringField(value.fields, "name"),
     scripts     |-> IF "scripts" \in DOMAIN value.fields
                     THEN MapOf(value.fields["scripts"]) ELSE NoFields,
     resolutions |-> MapField(value.fields, "resolutions"),
     pnpm        |-> IF "pnpm" \in DOMAIN value.fields
                     THEN Some([patched_dependencies |->
                                  MapField(value.fields["pnpm"].fields,
                                           "patchedDependencies")])
                     ELSE NoPnpm]

\* Serialize for PnpmConfig: skip_serializing_if = "Option::is_none"
PnpmValue(config) ==
    ObjectOf(IF config.patched_dependencies.some
             THEN {<<"patchedDependencies", MapValue(config.patched_dependencies.val)>>}
             ELSE {})

\* Serialize for PackageJson: an Option is skipped when None, scripts when
\* empty
to_value(package_json) ==
    ObjectOf(
        (IF package_json.name.some
         THEN {<<"name", String(package_json.name.val)>>} ELSE {})
        \cup (IF package_json.scripts # NoFields
              THEN {<<"scripts", MapValue(package_json.scripts)>>} ELSE {})
        \cup (IF package_json.resolutions.some
              THEN {<<"resolutions", MapValue(package_json.resolutions.val)>>} ELSE {})
        \cup (IF package_json.pnpm.some
              THEN {<<"pnpm", PnpmValue(package_json.pnpm.val)>>} ELSE {}))

PackageIdle ==
    /\ pjson = Object(NoFields)
    /\ ploaded = Deserialized(Object(NoFields))
    /\ pout = Object(NoFields)
    /\ ppc = "start"

\* the value handed to from_value
InitPackage ==
    /\ pjson \in JsonInputs
    /\ ploaded = Deserialized(Object(NoFields))
    /\ pout = Object(NoFields)
    /\ ppc = "start"

\* PackageJson::from_value: to_string, then load_from_str
FromValue(policy) ==
    /\ ppc = "start"
    /\ IF policy = "deny" /\ HasUnknownKey(pjson)
       THEN /\ ppc' = "rejected"
            /\ UNCHANGED ploaded
       ELSE /\ ppc' = "loaded"
            /\ ploaded' = Deserialized(pjson)
    /\ UNCHANGED <<pjson, pout, rvars, jvars, vvars, cvars, tvars>>

\* serde_json::to_value(package_json)
ToValue ==
    /\ ppc = "loaded"
    /\ pout' = to_value(ploaded)
    /\ ppc' = "done"
    /\ UNCHANGED <<pjson, ploaded, rvars, jvars, vvars, cvars, tvars>>

(* ------------------------------------------- cleared() seen from outside *)

NotRead == [read |-> FALSE, exists |-> FALSE, part |-> EmptyPartition]

ClearIdle ==
    /\ cpc = "idle"
    /\ seen = NotRead

\* cleared, line 28: self.fjall.delete_partition(self.handle)
ClearedDelete ==
    /\ cpc = "idle"
    /\ keyspace' = delete_partition(keyspace, Links)
    /\ cpc' = "deleted"
    /\ UNCHANGED <<pc, ident, count, prepared, ret, op, nPrepare, nSleep, nIncoming,
                   nStall, allEmpty, nonEmptyAt, exceeded, answer, first, stale,
                   wasStale, before, seen, jvars, vvars, tvars, pvars>>

\* cleared, lines 29-33: self.handle = self.fjall.open_partition("links", ..)
ClearedOpen ==
    /\ cpc = "deleted"
    /\ keyspace' = open_partition(keyspace, Links)
    /\ cpc' = "done"
    /\ UNCHANGED <<pc, ident, count, prepared, ret, op, nPrepare, nSleep, nIncoming,
                   nStall, allEmpty, nonEmptyAt, exceeded, answer, first, stale,
                   wasStale, before, seen, jvars, vvars, tvars, pvars>>

\* another holder of the &Keyspace looks the partition up by its name
ReadStore ==
    /\ seen' = IF Links \in DOMAIN keyspace
               THEN [read |-> TRUE, exists |-> TRUE, part |-> keyspace[Links]]
               ELSE [read |-> TRUE, exists |-> FALSE, part |-> EmptyPartition]
    /\ UNCHANGED <<rvars, cpc, jvars, vvars, tvars, pvars>>

(* ------------------------------------------------------- specifications *)

\* the specifications that are not about the store, the tags or package.json
OthersIdle == ClearIdle /\ TagsIdle /\ PackageIdle

Init == InitResolver /\ JoinIdle /\ VisitorIdle /\ OthersIdle

Next ==
    \/ \E i \in Identifiers : Resolve(i)
    \/ \E resp \in PrepareResponses : Prepare(resp)
    \/ Sleep
    \/ \E resp \in IncomingResponses : Incoming(resp)
    \/ Cleared

Spec == Init /\ [][Next]_vars

InitJ == ResolverIdle /\ InitJoin /\ VisitorIdle /\ OthersIdle

NextJoin ==
    \/ AddPair
    \/ AddTriple
    \/ FoldStack

SpecJoin == InitJ /\ [][NextJoin]_vars

InitV == ResolverIdle /\ JoinIdle /\ InitVisitor /\ OthersIdle

Constructs ==
    {"ItemFn", "ImplItemFn", "ExprLoop", "ExprForLoop", "ExprIf", "ExprClosure",
     "ItemImpl", "Other"}

NextVisitor ==
    \/ \E decl \in Declarations : VisitItemFn(decl)
    \/ \E decl \in Declarations : VisitImplItemFn(decl)
    \/ VisitExprLoop
    \/ VisitExprForLoop
    \/ VisitExprIf
    \/ VisitExprClosure
    \/ VisitItemImpl
    \/ VisitOther
    \/ \E callee \in Callees, args \in Arguments : VisitExprCall(callee, args)
    \/ \E kind \in Constructs : Leave(kind)
    \/ VisitDone
    \/ Result

SpecVisitor == InitV /\ [][NextVisitor]_vars

InitT == ResolverIdle /\ JoinIdle /\ VisitorIdle /\ ClearIdle /\ InitTags /\ PackageIdle

NextTags ==
    \/ ExtractTags

SpecTags == InitT /\ [][NextTags]_vars

InitP == ResolverIdle /\ JoinIdle /\ VisitorIdle /\ ClearIdle /\ TagsIdle /\ InitPackage

NextPackage ==
    \/ \E policy \in UnknownKeyPolicies : FromValue(policy)
    \/ ToValue

SpecPackage == InitP /\ [][NextPackage]_vars

InitC == InitResolver /\ JoinIdle /\ VisitorIdle /\ ClearIdle /\ TagsIdle /\ PackageIdle

NextClear ==
    \/ ClearedDelete
    \/ ClearedOpen
    \/ ReadStore

SpecClear == InitC /\ [][NextClear]_vars

TypeOK ==
    /\ pc \in {"idle", "prepare", "sleep", "incoming", "panicked"}
    /\ op \in {"new", "hit", "checking", "miss", "panic", "cleared"}
    /\ ident \in Identifiers
    /\ count \in 0..(MaxRetries + 1)
    /\ DOMAIN keyspace = {Links}
    /\ DOMAIN handle \subseteq Keys

(* ------------------------------------------------------ resolver claims *)

\* the canonical key of the identifier being resolved
key == to_string(ident)

\* the prepare loop of the last resolve that missed the cache is over
LoopDone == pc = "incoming" \/ op \in {"miss", "panic"}

\* C1: a resolve that finds the identifier's key in the cache returns the
\* cached list and issues no prepare and no incoming-calls request; and a
\* resolve of an identifier that was resolved before (with no clear since)
\* returns the list its first resolve returned, whatever the server answers.
C1_HitReturnsCached ==
    /\ op = "hit" =>
         /\ nPrepare = 0 /\ nIncoming = 0
         /\ key \in DOMAIN handle
         /\ ret = Some(Deserialize(handle[key]))
    /\ (op \in {"hit", "miss"} /\ key \in DOMAIN first) => ret = Some(first[key])

\* a hit that returns a non-empty list after the first resolve recorded it
C1_Witness ==
    /\ op = "hit"
    /\ key \in DOMAIN first
    /\ ret.val # <<>>
    /\ Len(ret.val) = MaxLinks

\* C2: a resolve that misses the cache issues at least one server request,
\* and when it returns a list the cache holds exactly that list (possibly
\* empty) under the identifier's key.
C2_MissQueriesAndCaches ==
    /\ op \in {"miss", "panic"} => nPrepare >= 1
    /\ pc \in {"sleep", "incoming"} => nPrepare >= 1
    /\ op = "miss" =>
         /\ ret.some
         /\ get(handle, key).some
         /\ Deserialize(get(handle, key).val) = ret.val

\* a miss that returned the empty list, which the cache now holds
C2_Witness ==
    /\ op = "miss"
    /\ ret = Some(<<>>)
    /\ get(handle, key) = Some(Serialize(<<>>))

\* C3: once the retry bound is exceeded the resolve issues no incoming-calls
\* request and returns (and caches) the empty list.
C3_BoundExceededSkipsIncoming ==
    exceeded =>
        /\ nIncoming = 0
        /\ op = "miss" => ret = Some(<<>>)

C5_AtMostSixPrepares == nPrepare <= 6 /\ nSleep <= 5

\* C6: a protocol error in answer to the incoming-calls request makes the
\* resolve return the empty list and cache it under the identifier's key;
\* the resolver does not panic.
C6_ErrorDowngraded ==
    (nIncoming = 1 /\ answer.error /\ op # "cleared") =>
        /\ op = "miss"
        /\ pc = "idle"
        /\ ret = Some(<<>>)
        /\ get(handle, key) = Some(Serialize(<<>>))

\* an error response that also carries a result
C6_Witness ==
    /\ op = "miss"
    /\ answer.error
    /\ answer.kind = "array"
    /\ answer.items # <<>>
    /\ ret = Some(<<>>)

\* C7: after cleared() the cache is empty, and a resolve of an identifier
\* that was cached before the clear does not hit: it asks the server again
\* and returns what the server answers now.
C7_ClearInvalidates ==
    /\ op = "cleared" => cached = 0
    /\ (wasStale /\ op # "cleared") =>
         /\ op # "hit"
         /\ op = "miss" =>
              /\ nPrepare >= 1
              /\ nIncoming = 1
              /\ ret = LinksOf(answer)

\* an identifier cached before the clear, resolved again from the server
C7_Witness ==
    /\ wasStale
    /\ op = "miss"
    /\ nPrepare >= 1
    /\ ret.val # <<>>

\* C12: when the incoming-calls response carries no protocol error and its
\* result is missing or is no list of incoming-call records, resolve aborts:
\* it returns no value, writes no entry for the identifier (no default such
\* as the empty list), and the cache is as it was before the call.
C12_MalformedAborts ==
    /\ (nIncoming = 1 /\ op # "cleared" /\ ~answer.error /\ answer.kind # "array") =>
         op = "panic"
    /\ op = "panic" =>
         /\ pc = "panicked"
         /\ ~answer.error /\ answer.kind # "array"
         /\ ~ret.some
         /\ key \notin DOMAIN handle
         /\ handle = before

\* an abort on a result that is no list, over a cache that holds an entry
C12_Witness ==
    /\ op = "panic"
    /\ answer.kind = "other"
    /\ cached = 1
    /\ nPrepare >= 2

\* C13: cache entries are write-once per key: without a clear, a step of the
\* resolver never removes or changes an entry that is there, and a resolve
\* writes its key only when the key was absent at the start of the call.
C13_WriteOnce ==
    [][/\ op' # "cleared" =>
            \A k \in DOMAIN handle : k \in DOMAIN handle' /\ handle'[k] = handle[k]
       /\ (op' # "cleared" /\ handle' # handle) =>
            /\ op' = "miss"
            /\ DOMAIN handle' = DOMAIN handle \cup {to_string(ident')}
            /\ to_string(ident') \notin DOMAIN before']_vars

\* the second of two resolves since the start, each of which wrote its key
C13_Witness ==
    /\ op = "miss"
    /\ Cardinality(DOMAIN first) = 2
    /\ key \notin DOMAIN before
    /\ DOMAIN before # {}
    /\ cached = 2

\* C20: resolve changes at most the entry under its identifier's key: the
\* entries under every other key keep their presence and value, no entry is
\* removed, the entry count grows by at most one, and a hit changes nothing.
C20_ResolveFrame ==
    op \in {"hit", "checking", "miss", "panic"} =>
        /\ \A k \in Keys \ {key} :
             /\ k \in DOMAIN handle <=> k \in DOMAIN before
             /\ k \in DOMAIN before => handle[k] = before[k]
        /\ DOMAIN before \subseteq DOMAIN handle
        /\ cached <= len(before) + 1
        /\ op = "hit" => handle = before

\* a miss that adds its entry beside another identifier's non-empty entry
C20_Witness ==
    /\ op = "miss"
    /\ len(before) = 1
    /\ cached = 2
    /\ \E k \in DOMAIN before : k # key /\ before[k] # <<0>>
    /\ ret = Some(<<>>)

\* C14: a clear replaces the "links" partition atomically: whoever reads
\* the store while cleared() runs finds the partition, holding either all of
\* its contents from before the clear or nothing.
C14_ClearAtomic ==
    seen.read => (seen.exists /\ seen.part \in {before, EmptyPartition})

(* ---------------------------------------------------- classifier claims *)

\* the orderings of a marker stack
Orderings(st) ==
    { [i \in 1..Len(st) |-> st[p[i]]] :
        p \in {q \in [1..Len(st) -> 1..Len(st)] :
                 \A i, j \in 1..Len(st) : q[i] = q[j] => i = j} }

Paired == jpc \in {"pair", "triple", "done"}

Tripled == jpc \in {"triple", "done"}

\* C8 as stated: Once joined with ZeroOrMore is OneOrMore; ZeroOrOnce joined
\* with Once is ZeroOrOnce; ZeroOrMore joined with ZeroOrMore is ZeroOrMore;
\* Block, If and Loop joined in any order give ZeroOrMore.
C8_JoinTableAsStated ==
    /\ (Paired /\ jx = "Once" /\ jy = "ZeroOrMore") => jxy = "OneOrMore"
    /\ (Paired /\ jx = "ZeroOrOnce" /\ jy = "Once") => jxy = "ZeroOrOnce"
    /\ (Paired /\ jx = "ZeroOrMore" /\ jy = "ZeroOrMore") => jxy = "ZeroOrMore"
    /\ (Tripled /\ {jx, jy, jz} = {"Once", "ZeroOrOnce", "ZeroOrMore"}) =>
         (jl = "ZeroOrMore" /\ jr = "ZeroOrMore")
    /\ (jpc = "done" /\ jstack \in Orderings(<<"Block", "If", "Loop">>)) =>
         jfold = Some("ZeroOrMore")

\* C8, amended: Once joined with ZeroOrMore is ZeroOrMore (the OR of 0b010
\* and 0b111); ZeroOrOnce joined with Once is ZeroOrOnce; ZeroOrMore joined
\* with ZeroOrMore is ZeroOrMore; Block, If and Loop joined in any order give
\* ZeroOrMore.
C8_JoinTable ==
    /\ (Paired /\ jx = "Once" /\ jy = "ZeroOrMore") => jxy = "ZeroOrMore"
    /\ (Paired /\ jx = "ZeroOrOnce" /\ jy = "Once") => jxy = "ZeroOrOnce"
    /\ (Paired /\ jx = "ZeroOrMore" /\ jy = "ZeroOrMore") => jxy = "ZeroOrMore"
    /\ (Tripled /\ {jx, jy, jz} = {"Once", "ZeroOrOnce", "ZeroOrMore"}) =>
         (jl = "ZeroOrMore" /\ jr = "ZeroOrMore")
    /\ (jpc = "done" /\ jstack \in Orderings(<<"Block", "If", "Loop">>)) =>
         jfold = Some("ZeroOrMore")

\* Once joined with the loop context, and the three contexts folded
C8_Witness ==
    /\ jpc = "done"
    /\ jx = "Once" /\ jy = "ZeroOrMore" /\ jz = "ZeroOrOnce"
    /\ jxy = "ZeroOrMore"
    /\ jstack = <<"Loop", "Block", "If">>
    /\ jfold = Some("ZeroOrMore")

\* C9: the join is commutative and associative over the four styles, so the
\* fold of a marker stack is the same for every order of its markers.
C9_CommutativeAssociative ==
    /\ Paired => (jxy = jyx /\ jxy \in CallingStyle)
    /\ Tripled => (jl = jr /\ jl \in CallingStyle)
    /\ jpc = "done" => \A other \in Orderings(jstack) : result(other) = jfold

\* a join of unlike operands, and a fold of a stack whose markers differ
C9_Witness ==
    /\ jpc = "done"
    /\ jx = "OneOrMore" /\ jy = "ZeroOrOnce" /\ jz = "Once"
    /\ jl = "ZeroOrMore"
    /\ jstack = <<"Block", "If", "Closure">>
    /\ jfold.some

\* C11: the join is closed over the four styles: the OR of the bit patterns
\* of two styles is one of 0b010, 0b011, 0b111, 0b110 and has the
\* exactly-once bit 0b010 set, so no sum of two or three styles and no fold
\* of a marker stack reaches the unreachable!() arm of add.
C11_JoinClosed ==
    /\ Paired =>
         /\ BitOr(bitset(jx), bitset(jy)) \in {2, 3, 7, 6}
         /\ (BitOr(bitset(jx), bitset(jy)) \div 2) % 2 = 1
         /\ jxy # "unreachable" /\ jyx # "unreachable"
    /\ Tripled => (jl # "unreachable" /\ jr # "unreachable")
    /\ jpc = "done" => jfold.val # "unreachable"

\* sums and a fold whose OR is 0b0110 or 0b0111
C11_Witness ==
    /\ jpc = "done"
    /\ jx = "Once" /\ jy = "OneOrMore" /\ jz = "OneOrMore"
    /\ jxy = "OneOrMore"
    /\ jl = "OneOrMore"
    /\ jstack = <<"If", "Closure">>
    /\ jfold = Some("ZeroOrMore")

\* the markers of the constructs of a path, outermost first
RECURSIVE MarkersOf(_)
MarkersOf(path) ==
    IF path = <<>> THEN <<>>
    ELSE LET kind == Head(path)
             here == CASE kind \in {"ItemFn", "ImplItemFn"}    -> <<"Block">>
                       [] kind \in {"ExprLoop", "ExprForLoop"} -> <<"Loop">>
                       [] kind = "ExprIf"                      -> <<"If">>
                       [] kind = "ExprClosure"                 -> <<"Closure">>
                       [] OTHER                                -> <<>>
         IN  here \o MarkersOf(Tail(path))

\* C17: the marker stack mirrors the nesting: at every point of a traversal
\* it holds one marker per construct entered and not yet left (matched
\* declaration: Block, loop and for: Loop, if: If, closure: Closure) in
\* nesting order, so a visit that returned leaves the stack as it found it,
\* and after the traversal of a fresh visitor the stack is empty.
C17_StrictStack ==
    /\ state = MarkersOf(vpath)
    /\ vpc \in {"done", "result"} => state = <<>>

\* a traversal that is back in the caller's body after it left an `if`,
\* and is inside a closure inside a loop now
C17_Witness ==
    /\ callShape = "if"
    /\ vpath = <<"ItemFn", "ExprLoop", "ExprClosure">>
    /\ state = <<"Block", "Loop", "Closure">>

\* the bit pattern of a marker's base multiplicity
PatternOf(b) ==
    CASE b = "Block"   -> 2
      [] b = "Loop"    -> 7
      [] b = "If"      -> 3
      [] b = "Closure" -> 7

RECURSIVE OrAll(_)
OrAll(st) == IF st = <<>> THEN 0 ELSE BitOr(PatternOf(Head(st)), OrAll(Tail(st)))

\* the join folded from the left over the styles `styles`, from `acc` on
RECURSIVE FoldLeft(_, _)
FoldLeft(acc, styles) ==
    IF styles = <<>> THEN acc
    ELSE FoldLeft(add(acc, Head(styles)), Tail(styles))

\* C18: result() is the left fold, with the join, of the base multiplicities
\* of the markers on the stack (Block: Once, Loop: ZeroOrMore, If:
\* ZeroOrOnce, Closure: ZeroOrMore): None iff the stack is empty, the one
\* marker's base multiplicity for a stack of one, and for a non-empty stack
\* the style whose bit pattern is the OR of the markers' patterns.
C18_ResultIsFold ==
    jpc = "done" =>
        /\ jfold.some <=> jstack # <<>>
        /\ jstack # <<>> =>
             /\ jfold.val \in CallingStyle
             /\ bitset(jfold.val) = OrAll(jstack)
             /\ jfold.val = FoldLeft(StyleOf(PatternOf(jstack[1])),
                                     [i \in 1..(Len(jstack) - 1) |->
                                        StyleOf(PatternOf(jstack[i + 1]))])
        /\ Len(jstack) = 1 => jfold = Some(StyleOf(PatternOf(jstack[1])))

\* the fold of a closure inside an `if` inside a block
C18_Witness ==
    /\ jpc = "done"
    /\ jstack = <<"Block", "If", "Closure">>
    /\ jfold = Some("ZeroOrMore")
    /\ jx = "ZeroOrOnce" /\ jy = "ZeroOrOnce" /\ jz = "ZeroOrOnce"

\* C19: a declaration is matched to the caller by its name alone, whatever
\* the place of the name: a handler called with a declaration of another
\* name pushes no marker and does not go into the body, one called with a
\* declaration of the caller's name pushes Block and goes in; and when no
\* declaration had the caller's name, result() is None.
C19_MatchByName ==
    /\ [][vdecl' # vdecl =>
            IF vdecl'.name = ReferenceName
            THEN /\ state' = Append(state, "Block")
                 /\ Len(vpath') = Len(vpath) + 1
            ELSE /\ state' = state
                 /\ vpath' = vpath]_vars
    /\ [](vpc = "result" /\ ~matched => vresult = NoStyle)

\* the second declaration handled has the caller's name at another place,
\* and was entered
C19_Witness ==
    /\ vdecl.name = ReferenceName
    /\ vdecl.range # ReferenceRange
    /\ vdecl.tick = FALSE
    /\ vpath = <<"ItemFn">>
    /\ state = <<"Block">>

\* the identifiers among the tokens, in their order
IdentsOf(tokens) ==
    LET ids == SelectSeq(tokens, LAMBDA t : t.kind = "Ident")
    IN  [i \in 1..Len(ids) |-> ids[i].text]

\* the tags the annotation at the least index of `at` carries
FirstTags(at) ==
    IF at = {} THEN NoTags
    ELSE LET a == attrs[CHOOSE i \in at : \A j \in at : i <= j]
         IN  Some(IF a.meta = "List" THEN IdentsOf(a.tokens) ELSE <<>>)

\* C15 as stated: extract_tags is None iff no annotation has the path
\* turbo_tasks::function; otherwise it is the tags of the first annotation
\* with that path: the empty list when it has no argument list, else the
\* identifiers of its argument list in source order.
C15_FirstMatchAsStated ==
    tpc = "done" =>
        tags = FirstTags({i \in 1..Len(attrs) : attrs[i].path = TaskPath})

\* C15, amended: extract_tags is None iff no annotation of the form #[path]
\* or #[path(..)] has the path turbo_tasks::function (an annotation
\* #[turbo_tasks::function = ..] is passed over like any other); otherwise
\* it is the tags of the first such annotation: the empty list for #[path],
\* else the identifiers of the argument list in source order.
C15_FirstMatch ==
    tpc = "done" =>
        tags = FirstTags({i \in 1..Len(attrs) :
                            /\ attrs[i].path = TaskPath
                            /\ attrs[i].meta \in {"Path", "List"}})

\* the marker with two identifiers follows the marker in name-value form
C15_Witness ==
    /\ tpc = "done"
    /\ Len(attrs) = 2
    /\ attrs[1] = Attr("NameValue", TaskPath, <<>>)
    /\ attrs[2].meta = "List"
    /\ tags = Some(<<"b", "a">>)

\* C16: for every object from_value accepts, the loaded PackageJson
\* serialized back is the object that was given, the members PackageJson
\* and PnpmConfig have no field for included.
C16_RoundTrip ==
    ppc = "done" => pout = pjson

\* C21: a visit of a call expression leaves the marker stack as it is and
\* does not go into the callee or the arguments: whatever the arguments
\* hold (a loop, an `if`, a closure), no marker is pushed for it, the
\* traversal is never inside a call expression, and result() of the visitor
\* is the same before and after the visit.
C21_CallFrame ==
    /\ [][vcall' # vcall =>
            /\ state' = state
            /\ vpath' = vpath
            /\ result(state') = result(state)]_vars
    /\ [](\A i \in 1..Len(vpath) : vpath[i] # "ExprCall")

\* two calls were visited, the last one inside an `if` of the caller with a
\* closure among its arguments; the target is called inside that `if` only
C21_Witness ==
    /\ callShape = "if"
    /\ vcall.args = "ExprClosure"
    /\ vcall.tick = FALSE
    /\ vpath = <<"ItemFn", "ExprIf">>
    /\ state = <<"Block", "If">>

\* C10: classification (a traversal by a fresh visitor, then result()) gives
\* Once for a call that stands directly in the matched caller, ZeroOrOnce for
\* a call inside one `if` of it, ZeroOrMore for a call inside a `for` of it.
C10_Classification ==
    vpc = "result" =>
        /\ callShape = "direct" => vresult = Some("Once")
        /\ callShape = "if" => vresult = Some("ZeroOrOnce")
        /\ callShape = "for" => vresult = Some("ZeroOrMore")

====
